---- MODULE Spec2Model ----
(***************************************************************************)
(* A model of two CoreDHCP plugins of toujourser/coredhcp:                 *)
(*   plugins/whitelist/plugin.go  - MAC address admission control          *)
(*   plugins/nbp/nbp.go           - network boot program options           *)
(* Strings are sequences of one-character strings, so that lower-casing,   *)
(* trimming, formatting and substring replacement are computed.            *)
(***************************************************************************)
EXTENDS Integers, Sequences, FiniteSets, TLC

VARIABLES
    whitelistedMACs,  \* whitelist: the package-level allow-set (nil or a set)
    cfg,              \* whitelist: the argument list the allow-set was built from
    call,             \* whitelist: the call in progress / last made, with its result
    u,                \* nbp: the template URL captured by the setup4 closure
    configured,       \* nbp: the URL that setup4 parsed when the closure was made
    h4,               \* nbp: per request goroutine, the closure's locals and result
    opt59,            \* nbp: package-level DHCPv6 boot file URL option
    opt60,            \* nbp: package-level DHCPv6 boot file parameter option
    configured6,      \* nbp: the URL that the last successful setup6 parsed
    nbpcall,          \* nbp: the setup6 / nbpHandler6 / nbpHandler4 call last made
    arch              \* nbp: a getArchString application (input list and result)

vars == <<whitelistedMACs, cfg, call, u, configured, h4, opt59, opt60, configured6,
          nbpcall, arch>>

wlVars == <<whitelistedMACs, cfg, call>>
nbp4Vars == <<u, configured, h4>>
nbp6Vars == <<opt59, opt60, configured6, nbpcall>>
nbpVars == <<u, configured, h4, opt59, opt60, configured6, nbpcall>>

(***************************************************************************)
(* Bounds                                                                  *)
(***************************************************************************)
MaxArgs == 2      \* longest whitelist argument list
MaxSegs == 2      \* most segments of a generated template path
MaxArchs == 3     \* longest advertised architecture list

(***************************************************************************)
(* Strings                                                                 *)
(***************************************************************************)
UpperAlphabet == <<"A","B","C","D","E","F","G","H","I","J","K","L","M",
                   "N","O","P","Q","R","S","T","U","V","W","X","Y","Z">>
LowerAlphabet == <<"a","b","c","d","e","f","g","h","i","j","k","l","m",
                   "n","o","p","q","r","s","t","u","v","w","x","y","z">>

IndexIn(c, alphabet) ==
    IF \E i \in DOMAIN alphabet : alphabet[i] = c
    THEN CHOOSE i \in DOMAIN alphabet : alphabet[i] = c
    ELSE 0

ToLowerChar(c) ==
    IF IndexIn(c, UpperAlphabet) # 0 THEN LowerAlphabet[IndexIn(c, UpperAlphabet)] ELSE c

ToUpperChar(c) ==
    IF IndexIn(c, LowerAlphabet) # 0 THEN UpperAlphabet[IndexIn(c, LowerAlphabet)] ELSE c

\* strings.ToLower
ToLower(s) == [i \in 1..Len(s) |-> ToLowerChar(s[i])]

\* strings.ToUpper (used only to generate configuration input)
ToUpper(s) == [i \in 1..Len(s) |-> ToUpperChar(s[i])]

IsSpace(c) == c \in {" ", "\t", "\n", "\r"}

RECURSIVE TrimLeft(_)
TrimLeft(s) == IF Len(s) > 0 /\ IsSpace(s[1]) THEN TrimLeft(Tail(s)) ELSE s

RECURSIVE TrimRight(_)
TrimRight(s) ==
    IF Len(s) > 0 /\ IsSpace(s[Len(s)]) THEN TrimRight(SubSeq(s, 1, Len(s) - 1)) ELSE s

\* strings.TrimSpace
TrimSpace(s) == TrimRight(TrimLeft(s))

HexDigits == <<"0","1","2","3","4","5","6","7","8","9","a","b","c","d","e","f">>

HexByte(b) == <<HexDigits[(b \div 16) + 1], HexDigits[(b % 16) + 1]>>

\* net.HardwareAddr.String: two lower-case hex digits per byte, joined by ":"
RECURSIVE HardwareAddrString(_)
HardwareAddrString(a) ==
    IF Len(a) = 0 THEN <<>>
    ELSE IF Len(a) = 1 THEN HexByte(a[1])
    ELSE HexByte(a[1]) \o <<":">> \o HardwareAddrString(Tail(a))

\* all sequences over S of length at most n
RECURSIVE SeqsUpTo(_, _)
SeqsUpTo(S, n) ==
    IF n = 0 THEN {<<>>}
    ELSE LET shorter == SeqsUpTo(S, n - 1)
         IN shorter \cup {Append(q, x) : q \in shorter, x \in S}

(***************************************************************************)
(* plugins/whitelist                                                       *)
(***************************************************************************)
NilMap == [isNil |-> TRUE, m |-> {}]
MakeMap(m) == [isNil |-> FALSE, m |-> m]

NilReply == [isNil |-> TRUE, v |-> "nil"]
Reply(r) == [isNil |-> FALSE, v |-> r]

\* in-progress replies handed to the handlers by the server
Replies == {"offer", "ack"}

\* hardware addresses written in the configuration
CfgAddrs == {<<10, 171>>, <<255, 0>>}

\* hardware addresses of requests: the configured ones, one that is never
\* configured, and the zero-length address of a packet with hlen = 0
ReqAddrs == CfgAddrs \cup {<<0, 0>>, <<>>}

\* configuration arguments: addresses as written by an operator (lower case,
\* upper case, upper case with surrounding blanks) and a blank entry
ArgPool ==
    {HardwareAddrString(<<10, 171>>),
     <<" ">> \o ToUpper(HardwareAddrString(<<10, 171>>)) \o <<"\t">>,
     HardwareAddrString(<<255, 0>>),
     ToUpper(HardwareAddrString(<<255, 0>>)),
     <<" ">>}

ArgLists == SeqsUpTo(ArgPool, MaxArgs)

\* the parsing loop of setup6 / setup4
RECURSIVE ParseMACs(_, _)
ParseMACs(args, m) ==
    IF Len(args) = 0 THEN m
    ELSE LET mac == ToLower(TrimSpace(Head(args)))
         IN ParseMACs(Tail(args), IF Len(mac) > 0 THEN m \cup {mac} ELSE m)

\* the value of whitelistedMACs after setup6(args...)
Setup6Map(old, args) == MakeMap(ParseMACs(args, {}))

\* the value of whitelistedMACs after setup4(args...)
Setup4MapKeepNil(old, args) == IF old.isNil THEN old ELSE MakeMap(ParseMACs(args, {}))
Setup4Map(old, args) == IF old.isNil THEN MakeMap(ParseMACs(args, {})) ELSE old

Unrestricted(wl) == wl.isNil \/ Cardinality(wl.m) = 0

\* Handler4(req, resp): the (reply, stop) pair
Handler4NoEmptyCheck(wl, hw, resp) ==
    LET macStr == ToLower(HardwareAddrString(hw))
    IN IF macStr \notin wl.m
       THEN [ret |-> NilReply, stop |-> TRUE]
       ELSE [ret |-> Reply(resp), stop |-> FALSE]
Handler4Inverted(wl, hw, resp) ==
    IF Unrestricted(wl) THEN [ret |-> Reply(resp), stop |-> FALSE]
    ELSE LET macStr == ToLower(HardwareAddrString(hw))
         IN IF macStr \in wl.m
            THEN [ret |-> NilReply, stop |-> TRUE]
            ELSE [ret |-> Reply(resp), stop |-> FALSE]
Handler4(wl, hw, resp) ==
    IF Unrestricted(wl) THEN [ret |-> Reply(resp), stop |-> FALSE]
    ELSE LET macStr == ToLower(HardwareAddrString(hw))
         IN IF macStr \notin wl.m
            THEN [ret |-> NilReply, stop |-> TRUE]
            ELSE [ret |-> Reply(resp), stop |-> FALSE]

\* Handler6(req, resp): extractErr is the err of dhcpv6.ExtractMAC(req)
Handler6FailOpen(wl, extractErr, hw, resp) ==
    IF Unrestricted(wl) \/ extractErr THEN [ret |-> Reply(resp), stop |-> FALSE]
    ELSE LET macStr == ToLower(HardwareAddrString(hw))
         IN IF macStr \notin wl.m
            THEN [ret |-> NilReply, stop |-> TRUE]
            ELSE [ret |-> Reply(resp), stop |-> FALSE]
Handler6(wl, extractErr, hw, resp) ==
    IF Unrestricted(wl) THEN [ret |-> Reply(resp), stop |-> FALSE]
    ELSE IF extractErr THEN [ret |-> NilReply, stop |-> TRUE]
    ELSE LET macStr == ToLower(HardwareAddrString(hw))
         IN IF macStr \notin wl.m
            THEN [ret |-> NilReply, stop |-> TRUE]
            ELSE [ret |-> Reply(resp), stop |-> FALSE]

NoCall ==
    [fn |-> "none", args |-> <<>>, hw |-> <<>>, extractErr |-> FALSE,
     resp |-> "nil", ret |-> NilReply, stop |-> FALSE, pre |-> NilMap]

\* the server loads the plugin for DHCPv6
WlSetup6 ==
    /\ call.fn = "none"
    /\ \E args \in ArgLists :
          /\ whitelistedMACs' = Setup6Map(whitelistedMACs, args)
          /\ cfg' = args
          /\ call' = [NoCall EXCEPT !.fn = "setup6", !.args = args,
                                    !.pre = whitelistedMACs]
    /\ UNCHANGED <<nbpVars, arch>>

\* the server loads the plugin for DHCPv4
WlSetup4 ==
    /\ call.fn = "none"
    /\ \E args \in ArgLists :
          /\ whitelistedMACs' = Setup4Map(whitelistedMACs, args)
          /\ cfg' = IF whitelistedMACs.isNil THEN args ELSE cfg
          /\ call' = [NoCall EXCEPT !.fn = "setup4", !.args = args,
                                    !.pre = whitelistedMACs]
    /\ UNCHANGED <<nbpVars, arch>>

\* the server passes a DHCPv4 request and its reply to Handler4
WlHandle4 ==
    /\ call.fn = "none"
    /\ \E hw \in ReqAddrs, resp \in Replies :
          LET r == Handler4(whitelistedMACs, hw, resp)
          IN call' = [NoCall EXCEPT !.fn = "Handler4", !.hw = hw, !.resp = resp,
                                    !.ret = r.ret, !.stop = r.stop,
                                    !.pre = whitelistedMACs]
    /\ UNCHANGED <<whitelistedMACs, cfg, nbpVars, arch>>

\* the server passes a DHCPv6 request and its reply to Handler6
WlHandle6 ==
    /\ call.fn = "none"
    /\ \E extractErr \in BOOLEAN, hw \in ReqAddrs, resp \in Replies :
          /\ extractErr => hw = <<>>
          /\ LET r == Handler6(whitelistedMACs, extractErr, hw, resp)
             IN call' = [NoCall EXCEPT !.fn = "Handler6", !.hw = hw,
                                       !.extractErr = extractErr, !.resp = resp,
                                       !.ret = r.ret, !.stop = r.stop,
                                       !.pre = whitelistedMACs]
    /\ UNCHANGED <<whitelistedMACs, cfg, nbpVars, arch>>

\* the caller takes the result; the next call can be made
WlReturn ==
    /\ call.fn # "none"
    /\ call' = NoCall
    /\ UNCHANGED <<whitelistedMACs, cfg, nbpVars, arch>>

(***************************************************************************)
(* plugins/nbp: strings, URLs                                              *)
(***************************************************************************)
HasPrefix(s, p) == Len(s) >= Len(p) /\ SubSeq(s, 1, Len(p)) = p

\* strings.ReplaceAll(s, old, new) for a non-empty old: left to right,
\* non-overlapping
RECURSIVE ReplaceFirst(_, _, _)
ReplaceFirst(s, old, new) ==
    IF Len(s) = 0 THEN <<>>
    ELSE IF HasPrefix(s, old) THEN new \o SubSeq(s, Len(old) + 1, Len(s))
    ELSE <<Head(s)>> \o ReplaceFirst(Tail(s), old, new)
RECURSIVE ReplaceAll(_, _, _)
ReplaceAll(s, old, new) ==
    IF Len(s) = 0 THEN <<>>
    ELSE IF HasPrefix(s, old)
         THEN new \o ReplaceAll(SubSeq(s, Len(old) + 1, Len(s)), old, new)
    ELSE <<Head(s)>> \o ReplaceAll(Tail(s), old, new)

RECURSIVE Flatten(_)
Flatten(ss) == IF Len(ss) = 0 THEN <<>> ELSE Head(ss) \o Flatten(Tail(ss))

ArchPlaceholder == <<"{","a","r","c","h","}">>
EfiPlaceholder == <<"{","e","f","i","}">>

sX86 == <<"x","8","6">>
sArm64 == <<"a","r","m","6","4">>
sX86legacy == <<"x","8","6","l","e","g","a","c","y">>
sUnknown == <<"u","n","k","n","o","w","n">>
sDefault == <<"d","e","f","a","u","l","t">>

sGrubx64 == <<"g","r","u","b","x","6","4",".","e","f","i">>
sGrubaa64 == <<"g","r","u","b","a","a","6","4",".","e","f","i">>
sGrub0 == <<"g","r","u","b",".","0">>
sUnknownEfi == <<"u","n","k","n","o","w","n",".","e","f","i">>

sHttp == <<"h","t","t","p">>
sHttps == <<"h","t","t","p","s">>
sFtp == <<"f","t","p">>
sTftp == <<"t","f","t","p">>

\* a parsed *url.URL: the fields the plugin reads. Templates carry no
\* percent-escapes, user info, opaque part or fragment.
MkURL(scheme, host, path, query) ==
    [Scheme |-> scheme, Host |-> host, Path |-> path, RawQuery |-> query]

\* url.URL.EscapedPath for a path whose only characters needing an escape are
\* the braces of a placeholder
RECURSIVE EscapedPath(_)
EscapedPath(path) ==
    IF Len(path) = 0 THEN <<>>
    ELSE (IF Head(path) = "{" THEN <<"%", "7", "B">>
          ELSE IF Head(path) = "}" THEN <<"%", "7", "D">>
          ELSE <<Head(path)>>) \o EscapedPath(Tail(path))

\* url.URL.String
URLString(url) ==
    LET scheme == IF Len(url.Scheme) > 0 THEN url.Scheme \o <<":">> ELSE <<>>
        slashes == IF (Len(url.Scheme) > 0 \/ Len(url.Host) > 0)
                      /\ (Len(url.Host) > 0 \/ Len(url.Path) > 0)
                   THEN <<"/", "/">> ELSE <<>>
        host == IF Len(url.Scheme) > 0 \/ Len(url.Host) > 0 THEN url.Host ELSE <<>>
        path == EscapedPath(url.Path)
        sep == IF Len(path) > 0 /\ path[1] # "/" /\ Len(url.Host) > 0
               THEN <<"/">> ELSE <<>>
        query == IF Len(url.RawQuery) > 0 THEN <<"?">> \o url.RawQuery ELSE <<>>
    IN scheme \o slashes \o host \o sep \o path \o query

\* strings.Cut(s, sep): <<before, after>>; after is empty when sep is absent
RECURSIVE Cut(_, _)
Cut(s, sep) ==
    IF Len(s) = 0 THEN <<(<<>>), (<<>>)>>
    ELSE IF Head(s) = sep THEN <<(<<>>), Tail(s)>>
    ELSE LET rest == Cut(Tail(s), sep)
         IN <<(<<Head(s)>>) \o rest[1], rest[2]>>

\* url.URL.Query().Get(key): the first value of key in the query string, or ""
RECURSIVE QueryGet(_, _)
QueryGet(query, key) ==
    IF Len(query) = 0 THEN <<>>
    ELSE LET pair == Cut(query, "&")
             kv == Cut(pair[1], "=")
         IN IF Len(pair[1]) > 0 /\ kv[1] = key THEN kv[2]
            ELSE QueryGet(pair[2], key)

sParams == <<"p","a","r","a","m","s">>

(***************************************************************************)
(* plugins/nbp: inputs                                                     *)
(***************************************************************************)
\* iana.Arch codes, by name
ArchCodes == {"INTEL_X86PC", "EFI_X86_64", "EFI_ARM64", "EFI_IA32", "EFI_BC"}

ArchLists == SeqsUpTo(ArchCodes, MaxArchs)

\* architecture lists of the requests handed to the boot handler
ReqArchs ==
    {<<>>} \cup {<<c>> : c \in ArchCodes} \cup {<<"EFI_IA32", "EFI_X86_64">>}

Segments == {<<"b","/">>, ArchPlaceholder, EfiPlaceholder}

\* template paths: empty, or "/" followed by up to MaxSegs segments, and the
\* documented examples
Paths ==
    {<<>>}
    \cup {<<"/">> \o Flatten(segs) : segs \in SeqsUpTo(Segments, MaxSegs)}
    \cup {<<"/","b","o","o","t","/","{","a","r","c","h","}","/","{","e","f","i","}">>, <<"/","{","a","r","c","{","e","f","i","}","h","}">>}

Schemes == {sHttp, sHttps, sFtp, sTftp, <<>>}
Hosts == {<<"h">>, <<"1","0",".","0",".","0",".","1">>}
Queries == {<<>>, <<"p","a","r","a","m","s","=","a">>}

Templates ==
    {MkURL(s, h, p, q) : s \in Schemes, h \in Hosts, p \in Paths, q \in Queries}

\* the templates given to setup6
Templates6 ==
    {MkURL(s, <<"h">>, <<"/","{","a","r","c","h","}">>, q) :
        s \in {sHttp, sTftp},
        q \in {<<>>, <<"p","a","r","a","m","s","=","a">>, <<"x","=","1","&","p","a","r","a","m","s","=","b">>, <<"p","a","r","a","m","s","=">>}}

\* a configuration argument, with the outcome of url.Parse on it
GoodArg(t) == [ok |-> TRUE, url |-> t]
BadArg == [ok |-> FALSE, url |-> MkURL(<<>>, <<>>, <<>>, <<>>)]

NbpArgLists(templates) ==
    {<<>>, <<BadArg>>, <<BadArg, BadArg>>} \cup {<<GoodArg(t)>> : t \in templates}

\* the templates and requests of the runs with two concurrent requests
ConcTemplates ==
    {MkURL(sTftp, <<"h">>, <<"/","b","o","o","t","/","{","a","r","c","h","}","/","{","e","f","i","}">>, <<>>),
     MkURL(sHttp, <<"h">>, <<"/","{","a","r","c","h","}","{","a","r","c","h","}">>, <<"p","a","r","a","m","s","=","a">>)}
ConcArchs == {<<>>, <<"EFI_X86_64">>, <<"INTEL_X86PC">>}

OptionCodes4 == {"OptionTFTPServerName", "OptionBootfileName"}

NilOpt == [isNil |-> TRUE, v |-> <<>>]
Opt(v) == [isNil |-> FALSE, v |-> v]

\* reply options before the handler runs: none, or both already set
NoOptions == [c \in OptionCodes4 |-> NilOpt]
OldOptions == [c \in OptionCodes4 |-> Opt(<<"o","l","d">>)]
Replies4 == {NoOptions, OldOptions}

Procs == {1, 2}

(***************************************************************************)
(* plugins/nbp: the DHCPv4 handler returned by setup4                      *)
(***************************************************************************)
\* getArchString: only the first advertised architecture is looked at
getArchStringLast(archs) ==
    IF Len(archs) = 0 THEN sDefault
    ELSE CASE archs[Len(archs)] = "EFI_X86_64" -> sX86
           [] archs[Len(archs)] = "EFI_ARM64" -> sArm64
           [] archs[Len(archs)] = "INTEL_X86PC" -> sX86legacy
           [] OTHER -> sUnknown
getArchString(archs) ==
    IF Len(archs) = 0 THEN sDefault
    ELSE CASE archs[1] = "EFI_X86_64" -> sX86
           [] archs[1] = "EFI_ARM64" -> sArm64
           [] archs[1] = "INTEL_X86PC" -> sX86legacy
           [] OTHER -> sUnknown

\* the two replacements on modifiedURL.Path
SubstitutePathFirstOnly(path, archStr) ==
    LET p1 == ReplaceFirst(path, ArchPlaceholder, archStr)
    IN CASE archStr = sX86 -> ReplaceFirst(p1, EfiPlaceholder, sGrubx64)
         [] archStr = sArm64 -> ReplaceFirst(p1, EfiPlaceholder, sGrubaa64)
         [] archStr = sX86legacy -> ReplaceFirst(p1, EfiPlaceholder, sGrub0)
         [] OTHER -> ReplaceFirst(p1, EfiPlaceholder, sUnknownEfi)
SubstitutePath(path, archStr) ==
    LET p1 == ReplaceAll(path, ArchPlaceholder, archStr)
    IN CASE archStr = sX86 -> ReplaceAll(p1, EfiPlaceholder, sGrubx64)
         [] archStr = sArm64 -> ReplaceAll(p1, EfiPlaceholder, sGrubaa64)
         [] archStr = sX86legacy -> ReplaceAll(p1, EfiPlaceholder, sGrub0)
         [] OTHER -> ReplaceAll(p1, EfiPlaceholder, sUnknownEfi)

\* the switch on modifiedURL.Scheme: the computed options <<tftpOpt, bootOpt>>
SchemeSwitchAlwaysSplit(url) ==
    [tftpOpt |-> Opt(url.Host), bootOpt |-> Opt(url.Path)]
SchemeSwitch(url) ==
    IF url.Scheme \in {sHttp, sHttps, sFtp}
    THEN [tftpOpt |-> NilOpt, bootOpt |-> Opt(URLString(url))]
    ELSE [tftpOpt |-> Opt(url.Host), bootOpt |-> Opt(url.Path)]

\* the option codes for which resp.Options.Update is called
UpdatedCodesCoupled(tftpOpt, bootOpt, requested) ==
    IF ~tftpOpt.isNil /\ "OptionTFTPServerName" \in requested
    THEN {"OptionTFTPServerName", "OptionBootfileName"}
    ELSE {}
UpdatedCodes(tftpOpt, bootOpt, requested) ==
    (IF ~tftpOpt.isNil /\ "OptionTFTPServerName" \in requested
     THEN {"OptionTFTPServerName"} ELSE {})
    \cup
    (IF ~bootOpt.isNil /\ "OptionBootfileName" \in requested
     THEN {"OptionBootfileName"} ELSE {})

\* resp.Options after the updates
UpdateOptions(options, tftpOpt, bootOpt, written) ==
    [c \in OptionCodes4 |->
        IF c \notin written THEN options[c]
        ELSE IF c = "OptionTFTPServerName" THEN tftpOpt ELSE bootOpt]

NoURL == [set |-> FALSE, url |-> MkURL(<<>>, <<>>, <<>>, <<>>)]

Idle4 ==
    [pc |-> "idle", archs |-> <<>>, requested |-> {}, resp |-> NoOptions,
     archStr |-> <<>>, modifiedURL |-> NoURL.url, tftpOpt |-> NilOpt,
     bootOpt |-> NilOpt, written |-> {}, ret |-> NoOptions, stop |-> FALSE]

NoNbpCall ==
    [fn |-> "none", err |-> FALSE, url |-> NoURL.url, decapErr |-> FALSE,
     requested |-> <<>>, given |-> <<>>, ret |-> <<>>,
     requested4 |-> {}, given4 |-> NoOptions, ret4 |-> NoOptions,
     retNil |-> FALSE, stop |-> FALSE, pre59 |-> NilOpt, pre60 |-> NilOpt]

\* setup4(args...): parseArgs, then the closure over u
NbpSetup4(argLists) ==
    /\ nbpcall.fn = "none"
    /\ \A p \in Procs : h4[p].pc = "idle"
    /\ \E args \in argLists :
          IF Len(args) # 1 \/ ~args[1].ok
          THEN /\ nbpcall' = [NoNbpCall EXCEPT !.fn = "setup4", !.err = TRUE]
               /\ UNCHANGED <<u, configured, h4, wlVars, arch>>
          ELSE /\ nbpcall' = [NoNbpCall EXCEPT !.fn = "setup4"]
               /\ u' = [set |-> TRUE, url |-> args[1].url]
               /\ configured' = args[1].url
               /\ h4' = [p \in Procs |-> Idle4]
    /\ UNCHANGED <<opt59, opt60, configured6, wlVars, arch>>

\* the closure is entered with a request and its reply: the architecture is
\* classified and the template copied into modifiedURL
H4Receive(p, archLists) ==
    /\ u.set
    /\ nbpcall.fn = "none"
    /\ h4[p].pc = "idle"
    /\ \E archs \in archLists, requested \in SUBSET OptionCodes4, resp \in Replies4 :
          h4' = [h4 EXCEPT ![p] =
                    [Idle4 EXCEPT !.pc = "copied", !.archs = archs,
                                  !.requested = requested, !.resp = resp,
                                  !.archStr = getArchString(archs),
                                  !.modifiedURL = u.url]]
    /\ UNCHANGED <<u, configured, opt59, opt60, configured6, nbpcall, wlVars, arch>>

\* a handler that works on the shared template instead of a copy of it
H4SubstituteShared(p) ==
    /\ h4[p].pc = "copied"
    /\ LET path == SubstitutePath(u.url.Path, h4[p].archStr)
       IN /\ u' = [u EXCEPT !.url.Path = path]
          /\ h4' = [h4 EXCEPT ![p].pc = "substituted",
                              ![p].modifiedURL = [u.url EXCEPT !.Path = path]]
    /\ UNCHANGED <<configured, opt59, opt60, configured6, nbpcall, wlVars, arch>>

\* {arch} and {efi} are replaced in the copy's path
H4Substitute(p) ==
    /\ h4[p].pc = "copied"
    /\ h4' = [h4 EXCEPT ![p].pc = "substituted",
                        ![p].modifiedURL.Path =
                            SubstitutePath(h4[p].modifiedURL.Path, h4[p].archStr)]
    /\ UNCHANGED <<u, configured, opt59, opt60, configured6, nbpcall, wlVars, arch>>

\* the options are computed from the scheme, written if requested, and the
\* handler returns (resp, true)
H4Emit(p) ==
    /\ h4[p].pc = "substituted"
    /\ LET opts == SchemeSwitch(h4[p].modifiedURL)
           written == UpdatedCodes(opts.tftpOpt, opts.bootOpt, h4[p].requested)
       IN h4' = [h4 EXCEPT ![p].pc = "returned",
                           ![p].tftpOpt = opts.tftpOpt,
                           ![p].bootOpt = opts.bootOpt,
                           ![p].written = written,
                           ![p].ret = UpdateOptions(h4[p].resp, opts.tftpOpt,
                                                    opts.bootOpt, written),
                           ![p].stop = TRUE]
    /\ UNCHANGED <<u, configured, opt59, opt60, configured6, nbpcall, wlVars, arch>>

\* the server takes the returned reply; the goroutine ends
H4Done(p) ==
    /\ h4[p].pc = "returned"
    /\ h4' = [h4 EXCEPT ![p] = Idle4]
    /\ UNCHANGED <<u, configured, opt59, opt60, configured6, nbpcall, wlVars, arch>>

(***************************************************************************)
(* plugins/nbp: DHCPv6, and the unused DHCPv4 handler nbpHandler4          *)
(***************************************************************************)
\* the option lists a DHCPv6 client can send as its requested options
RequestedLists6 ==
    {<<>>, <<"OptionBootfileURL">>, <<"OptionBootfileParam">>,
     <<"OptionBootfileURL", "OptionBootfileParam">>,
     <<"OptionBootfileParam", "OptionDNSRecursiveNameServer", "OptionBootfileURL">>}

\* DHCPv6 replies before the handler runs: a list of options
Replies6 == {<<>>, <<[code |-> "OptionServerID", v |-> <<"s">>]>>}

\* the loop of nbpHandler6 over the requested option codes
RECURSIVE AddRequested(_, _, _, _)
AddRequested(resp, requested, o59, o60) ==
    IF Len(requested) = 0 THEN resp
    ELSE LET code == Head(requested)
             next == IF code = "OptionBootfileURL"
                     THEN Append(resp, [code |-> "OptionBootfileURL", v |-> o59.v])
                     ELSE IF code = "OptionBootfileParam" /\ ~o60.isNil
                     THEN Append(resp, [code |-> "OptionBootfileParam", v |-> o60.v])
                     ELSE resp
         IN AddRequested(next, Tail(requested), o59, o60)

\* nbpHandler6(req, resp): decapErr is the err of req.GetInnerMessage()
nbpHandler6Continue(o59, o60, decapErr, requested, resp) ==
    IF o59.isNil THEN [ret |-> resp, retNil |-> FALSE, stop |-> FALSE]
    ELSE IF decapErr THEN [ret |-> <<>>, retNil |-> TRUE, stop |-> TRUE]
    ELSE [ret |-> AddRequested(resp, requested, o59, o60), retNil |-> FALSE,
          stop |-> TRUE]
nbpHandler6(o59, o60, decapErr, requested, resp) ==
    IF o59.isNil THEN [ret |-> resp, retNil |-> FALSE, stop |-> TRUE]
    ELSE IF decapErr THEN [ret |-> <<>>, retNil |-> TRUE, stop |-> TRUE]
    ELSE [ret |-> AddRequested(resp, requested, o59, o60), retNil |-> FALSE,
          stop |-> TRUE]

\* opt66 and opt67 are declared and never assigned: the setup4 that set them
\* is commented out
opt66 == NilOpt
opt67 == NilOpt

\* nbpHandler4(req, resp)
nbpHandler4(requested, resp) ==
    IF opt67.isNil THEN [ret |-> resp, stop |-> TRUE]
    ELSE [ret |-> [c \in OptionCodes4 |->
                     IF c = "OptionTFTPServerName" /\ c \in requested /\ ~opt66.isNil
                     THEN opt66
                     ELSE IF c = "OptionBootfileName" /\ c \in requested
                     THEN opt67
                     ELSE resp[c]],
          stop |-> TRUE]

\* setup6(args...)
NbpSetup6(argLists) ==
    /\ nbpcall.fn = "none"
    /\ \E args \in argLists :
          IF Len(args) # 1 \/ ~args[1].ok
          THEN /\ nbpcall' = [NoNbpCall EXCEPT !.fn = "setup6", !.err = TRUE,
                                               !.pre59 = opt59, !.pre60 = opt60]
               /\ UNCHANGED <<opt59, opt60, configured6, wlVars, arch>>
          ELSE LET params == QueryGet(args[1].url.RawQuery, sParams)
               IN /\ opt59' = Opt(URLString(args[1].url))
                  /\ opt60' = IF Len(params) > 0 THEN Opt(params) ELSE opt60
                  /\ configured6' = [set |-> TRUE, url |-> args[1].url]
                  /\ nbpcall' = [NoNbpCall EXCEPT !.fn = "setup6",
                                                  !.url = args[1].url,
                                                  !.pre59 = opt59, !.pre60 = opt60]
    /\ UNCHANGED <<u, configured, h4, wlVars, arch>>

\* a DHCPv6 request and its reply are passed to nbpHandler6
NbpHandle6 ==
    /\ nbpcall.fn = "none"
    /\ \E decapErr \in BOOLEAN, requested \in RequestedLists6, resp \in Replies6 :
          LET r == nbpHandler6(opt59, opt60, decapErr, requested, resp)
          IN nbpcall' = [NoNbpCall EXCEPT !.fn = "nbpHandler6",
                                          !.decapErr = decapErr,
                                          !.requested = requested, !.given = resp,
                                          !.ret = r.ret, !.retNil = r.retNil,
                                          !.stop = r.stop,
                                          !.pre59 = opt59, !.pre60 = opt60]
    /\ UNCHANGED <<u, configured, h4, opt59, opt60, configured6, wlVars, arch>>

\* a DHCPv4 request and its reply are passed to nbpHandler4
NbpHandle4Legacy ==
    /\ nbpcall.fn = "none"
    /\ \E requested \in SUBSET OptionCodes4, resp \in Replies4 :
          LET r == nbpHandler4(requested, resp)
          IN nbpcall' = [NoNbpCall EXCEPT !.fn = "nbpHandler4",
                                          !.requested4 = requested, !.given4 = resp,
                                          !.ret4 = r.ret, !.stop = r.stop]
    /\ UNCHANGED <<u, configured, h4, opt59, opt60, configured6, wlVars, arch>>

\* the caller takes the result; the next call can be made
NbpReturn ==
    /\ nbpcall.fn # "none"
    /\ nbpcall' = NoNbpCall
    /\ UNCHANGED <<u, configured, h4, opt59, opt60, configured6, wlVars, arch>>

(***************************************************************************)
(* getArchString on its own                                                *)
(***************************************************************************)
ArchClassify ==
    /\ ~arch.done
    /\ \E archs \in ArchLists :
          arch' = [archs |-> archs, out |-> getArchString(archs), done |-> TRUE]
    /\ UNCHANGED <<wlVars, nbpVars>>

\* the application is over; the next one can be made
ArchReset ==
    /\ arch.done
    /\ arch' = [archs |-> <<>>, out |-> <<>>, done |-> FALSE]
    /\ UNCHANGED <<wlVars, nbpVars>>

(***************************************************************************)
(* Specifications                                                          *)
(***************************************************************************)
Init ==
    /\ whitelistedMACs = NilMap
    /\ cfg = <<>>
    /\ call = NoCall
    /\ u = NoURL
    /\ configured = NoURL.url
    /\ h4 = [p \in Procs |-> Idle4]
    /\ opt59 = NilOpt
    /\ opt60 = NilOpt
    /\ configured6 = NoURL
    /\ nbpcall = NoNbpCall
    /\ arch = [archs |-> <<>>, out |-> <<>>, done |-> FALSE]

\* the admission control plugin
NextWhitelist ==
    \/ WlSetup6
    \/ WlSetup4
    \/ WlHandle4
    \/ WlHandle6
    \/ WlReturn

SpecWhitelist == Init /\ [][NextWhitelist]_vars

\* the DHCPv4 boot handler, one request at a time
NextNbp ==
    \/ NbpSetup4(NbpArgLists(Templates))
    \/ NbpReturn
    \/ H4Receive(1, ReqArchs)
    \/ H4Substitute(1)
    \/ H4Emit(1)
    \/ H4Done(1)

SpecNbp == Init /\ [][NextNbp]_vars

\* the DHCPv4 boot handler, requests handled concurrently
NextNbpConc ==
    \/ NbpSetup4(NbpArgLists(ConcTemplates))
    \/ NbpReturn
    \/ \E p \in Procs : H4Receive(p, ConcArchs)
    \/ \E p \in Procs : H4Substitute(p)
    \/ \E p \in Procs : H4Emit(p)
    \/ \E p \in Procs : H4Done(p)

SpecNbpConc == Init /\ [][NextNbpConc]_vars

\* the DHCPv6 boot handler and nbpHandler4
NextNbp6 ==
    \/ NbpSetup6(NbpArgLists(Templates6))
    \/ NbpHandle6
    \/ NbpHandle4Legacy
    \/ NbpReturn

SpecNbp6 == Init /\ [][NextNbp6]_vars

\* the architecture classifier
NextArch ==
    \/ ArchClassify
    \/ ArchReset

SpecArch == Init /\ [][NextArch]_vars

(***************************************************************************)
(* Admission control: claims C1 - C4                                       *)
(***************************************************************************)
\* the lower-cased, trimmed entries of a configured list
NormEntries(L) == {ToLower(TrimSpace(L[i])) : i \in DOMAIN L}

\* those of them that are not empty
NonEmptyNormEntries(L) == NormEntries(L) \ {<<>>}

UpperList(L) == [i \in DOMAIN L |-> ToUpper(L[i])]

Admitted(c) == c.ret = Reply(c.resp) /\ ~c.stop
Rejected(c) == c.ret = NilReply /\ c.stop

\* C1 as stated: with a non-empty allow-set built from the list cfg, Handler4
\* admits the request iff the lower-cased text of its hardware address is
\* among the lower-cased, trimmed entries of cfg, and rejects it otherwise.
C1_Original ==
    (call.fn = "Handler4" /\ ~Unrestricted(call.pre)) =>
        IF ToLower(HardwareAddrString(call.hw)) \in NormEntries(cfg)
        THEN Admitted(call)
        ELSE Rejected(call)

\* C1 amended: with a non-empty allow-set built from the list cfg, Handler4
\* admits the request iff the lower-cased text of its hardware address is
\* among the non-empty lower-cased, trimmed entries of cfg, and rejects it
\* (nil, stop) otherwise; the list with every entry upper-cased decides alike.
C1_Handler4Membership ==
    (call.fn = "Handler4" /\ ~Unrestricted(call.pre)) =>
        /\ IF ToLower(HardwareAddrString(call.hw)) \in NonEmptyNormEntries(cfg)
           THEN Admitted(call)
           ELSE Rejected(call)
        /\ Admitted(call) <=>
              ToLower(HardwareAddrString(call.hw)) \in NonEmptyNormEntries(UpperList(cfg))

\* a request is admitted by an entry written in upper case with blanks
\* around it, and the configured list also holds a blank entry
C1_Witness ==
    /\ call.fn = "Handler4"
    /\ ~Unrestricted(call.pre)
    /\ Admitted(call)
    /\ \A i \in DOMAIN cfg : cfg[i] # HardwareAddrString(call.hw)
    /\ <<>> \in NormEntries(cfg)

\* C2: with an empty or never initialised allow-set, Handler4 and Handler6
\* return the given reply with stop = false for every request.
C2_EmptyAdmitsAll ==
    (call.fn \in {"Handler4", "Handler6"} /\ Unrestricted(call.pre)) =>
        Admitted(call)

\* Handler6 admits a request without an extractable address while the
\* allow-set is initialised and empty
C2_Witness ==
    /\ call.fn = "Handler6"
    /\ call.extractErr
    /\ ~call.pre.isNil
    /\ call.pre.m = {}
    /\ Admitted(call)

\* C3 as stated: after any setup4 or setup6 call with list L the allow-set is
\* the set of non-empty lower-cased, trimmed entries of L.
C3_Original ==
    call.fn \in {"setup4", "setup6"} =>
        whitelistedMACs = MakeMap(NonEmptyNormEntries(call.args))

\* C3 amended: after setup6, and after setup4 when the allow-set was never
\* initialised, the allow-set is the set of non-empty lower-cased, trimmed
\* entries of L (so zero arguments leave the unit unrestricted); setup4 on an
\* initialised allow-set leaves it as it was.
C3_SetupBuildsAllowSet ==
    /\ (call.fn = "setup6" \/ (call.fn = "setup4" /\ call.pre.isNil)) =>
          /\ whitelistedMACs = MakeMap(NonEmptyNormEntries(call.args))
          /\ cfg = call.args
          /\ Len(call.args) = 0 => Unrestricted(whitelistedMACs)
    /\ (call.fn = "setup4" /\ ~call.pre.isNil) => whitelistedMACs = call.pre

\* setup4 returns on an initialised allow-set that differs from its list's
C3_Witness ==
    /\ call.fn = "setup4"
    /\ ~call.pre.isNil
    /\ call.pre.m # NonEmptyNormEntries(call.args)
    /\ Len(call.args) > 0
    /\ whitelistedMACs = call.pre

\* C4 as stated: whatever the allow-set, Handler6 rejects a request from
\* which no hardware address can be extracted.
C4_Original ==
    (call.fn = "Handler6" /\ call.extractErr) => Rejected(call)

\* C4 amended: Handler6 rejects (nil, stop) a request from which no hardware
\* address can be extracted whenever the allow-set is non-empty; with an
\* empty or never initialised allow-set the request is admitted.
C4_ExtractionFailure ==
    (call.fn = "Handler6" /\ call.extractErr) =>
        IF Unrestricted(call.pre) THEN Admitted(call) ELSE Rejected(call)

\* an extraction failure is rejected under a non-empty allow-set
C4_Witness ==
    /\ call.fn = "Handler6"
    /\ call.extractErr
    /\ ~Unrestricted(call.pre)
    /\ Rejected(call)

(***************************************************************************)
(* Boot options, DHCPv4: claims C5 - C7, C9                                *)
(***************************************************************************)
Returned(p) == h4[p].pc = "returned"

URLSchemes == {sHttp, sHttps, sFtp}

\* C5: the TFTP server name option is written to the reply iff a value was
\* computed for it and the client requested its code, the boot file option
\* iff a value was computed for it and the client requested its code, each
\* decided on its own; an option not written keeps what the reply held.
C5_OptionGating ==
    \A p \in Procs : Returned(p) =>
        LET r == h4[p]
            tftp == ~r.tftpOpt.isNil /\ "OptionTFTPServerName" \in r.requested
            boot == ~r.bootOpt.isNil /\ "OptionBootfileName" \in r.requested
        IN /\ r.ret["OptionTFTPServerName"] =
                 IF tftp THEN r.tftpOpt ELSE r.resp["OptionTFTPServerName"]
           /\ r.ret["OptionBootfileName"] =
                 IF boot THEN r.bootOpt ELSE r.resp["OptionBootfileName"]
           /\ "OptionTFTPServerName" \in r.written <=> tftp
           /\ "OptionBootfileName" \in r.written <=> boot

\* both options are requested and only the boot file is written, over a
\* reply that already held both
C5_Witness ==
    /\ Returned(1)
    /\ h4[1].requested = OptionCodes4
    /\ h4[1].resp = OldOptions
    /\ h4[1].written = {"OptionBootfileName"}
    /\ h4[1].ret["OptionTFTPServerName"] = Opt(<<"o","l","d">>)
    /\ h4[1].ret["OptionBootfileName"] = h4[1].bootOpt

C6_WitnessURL ==
    /\ Returned(1)
    /\ h4[1].tftpOpt.isNil
    /\ h4[1].bootOpt = Opt(<<"h","t","t","p","s",":","/","/","h","/","a","r","m","6","4","g","r","u","b","a","a","6","4",".","e","f","i","?","p","a","r","a","m","s","=","a">>)

\* the resolution of a template for an architecture list, as one function
Resolve(template, archs) ==
    SchemeSwitch([template EXCEPT
                     !.Path = SubstitutePath(template.Path, getArchString(archs))])

\* C7: whatever requests were or are being handled, the template captured at
\* setup4 is the URL that was configured, and every finished request got the
\* values that the configured template and its architecture determine.
C7_TemplateUnchanged ==
    /\ u.set => u.url = configured
    /\ \A p \in Procs : Returned(p) =>
          /\ h4[p].tftpOpt = Resolve(configured, h4[p].archs).tftpOpt
          /\ h4[p].bootOpt = Resolve(configured, h4[p].archs).bootOpt

\* one request has returned and another, for a different architecture, has
\* substituted its copy; the template still holds its placeholders
C7_Witness ==
    /\ Returned(2)
    /\ h4[1].pc = "substituted"
    /\ h4[1].archStr # h4[2].archStr
    /\ h4[1].modifiedURL.Path # configured.Path
    /\ h4[2].modifiedURL.Path # h4[1].modifiedURL.Path
    /\ u.url.Path = <<"/","b","o","o","t","/","{","a","r","c","h","}","/","{","e","f","i","}">>

\* the bootloader table of the claim, keyed on the short form
EfiTable(short) ==
    IF short = sX86 THEN sGrubx64
    ELSE IF short = sArm64 THEN sGrubaa64
    ELSE IF short = sX86legacy THEN sGrub0
    ELSE sUnknownEfi

\* one pass over the path that replaces both placeholders where they stand
RECURSIVE SubstituteInOnePass(_, _)
SubstituteInOnePass(path, short) ==
    IF Len(path) = 0 THEN <<>>
    ELSE IF HasPrefix(path, ArchPlaceholder)
         THEN short \o SubstituteInOnePass(
                          SubSeq(path, Len(ArchPlaceholder) + 1, Len(path)), short)
    ELSE IF HasPrefix(path, EfiPlaceholder)
         THEN EfiTable(short) \o SubstituteInOnePass(
                          SubSeq(path, Len(EfiPlaceholder) + 1, Len(path)), short)
    ELSE <<Head(path)>> \o SubstituteInOnePass(Tail(path), short)

Occurs(s, sub) == \E i \in 1..Len(s) : HasPrefix(SubSeq(s, i, Len(s)), sub)

\* C9: the resolved path is the template path with every {arch} replaced by
\* the short form and every {efi} by the bootloader of the table, all other
\* text as it was; no placeholder is left.
C9_Substitution ==
    \A p \in Procs : h4[p].pc \in {"substituted", "returned"} =>
        LET r == h4[p]
        IN /\ r.archStr \in {sX86, sArm64, sX86legacy, sUnknown, sDefault}
           /\ r.modifiedURL.Path = SubstituteInOnePass(configured.Path, r.archStr)
           /\ ~Occurs(r.modifiedURL.Path, ArchPlaceholder)
           /\ ~Occurs(r.modifiedURL.Path, EfiPlaceholder)
           /\ (configured.Path = <<"/","b","o","o","t","/","{","a","r","c","h","}","/","{","e","f","i","}">> /\ r.archs = <<"EFI_X86_64">>)
                 => r.modifiedURL.Path = <<"/","b","o","o","t","/","x","8","6","/","g","r","u","b","x","6","4",".","e","f","i">>
           /\ ~Occurs(configured.Path, <<"{">>) => r.modifiedURL.Path = configured.Path

\* "/boot/{arch}/{efi}" resolved for EFI x86-64
C9_Witness ==
    /\ h4[1].pc = "substituted"
    /\ configured.Path = <<"/","b","o","o","t","/","{","a","r","c","h","}","/","{","e","f","i","}">>
    /\ h4[1].archs = <<"EFI_X86_64">>
    /\ h4[1].modifiedURL.Path = <<"/","b","o","o","t","/","x","8","6","/","g","r","u","b","x","6","4",".","e","f","i">>

\* a path with the same placeholder twice and text that only resembles one
C9_WitnessTwice ==
    /\ h4[1].pc = "substituted"
    /\ configured.Path = <<"/","{","e","f","i","}","{","e","f","i","}">>
    /\ h4[1].modifiedURL.Path = <<"/","g","r","u","b",".","0","g","r","u","b",".","0">>

(***************************************************************************)
(* Boot options: claim C8                                                  *)
(***************************************************************************)
NoTemplate6 == nbpcall.fn = "nbpHandler6" /\ nbpcall.pre59.isNil
NoTemplate4 == nbpcall.fn = "nbpHandler4" /\ opt67.isNil

C10_Classification ==
    arch.done =>
        /\ arch.out \in {sX86, sArm64, sX86legacy, sUnknown, sDefault}
        /\ arch.out = sDefault <=> Len(arch.archs) = 0
        /\ Len(arch.archs) > 0 =>
              /\ arch.out = sX86 <=> arch.archs[1] = "EFI_X86_64"
              /\ arch.out = sArm64 <=> arch.archs[1] = "EFI_ARM64"
              /\ arch.out = sX86legacy <=> arch.archs[1] = "INTEL_X86PC"
              /\ arch.out = sUnknown <=>
                    arch.archs[1] \notin {"EFI_X86_64", "EFI_ARM64", "INTEL_X86PC"}
              /\ arch.out = getArchString(<<arch.archs[1]>>)

\* a list whose later elements are known codes other than its first
C10_Witness ==
    /\ arch.done
    /\ Len(arch.archs) = MaxArchs
    /\ arch.archs[1] = "EFI_IA32"
    /\ arch.archs[2] = "EFI_X86_64"
    /\ arch.archs[MaxArchs] = "INTEL_X86PC"
    /\ arch.out = sUnknown

(***************************************************************************)
(* Boot options, DHCPv6: claim C11                                         *)
(***************************************************************************)
\* a request whose inner message was read, handled after a successful setup6
Handled6 ==
    /\ nbpcall.fn = "nbpHandler6"
    /\ configured6.set
    /\ ~nbpcall.decapErr

\* the options the handler appended to the given reply
Added6 == SubSeq(nbpcall.ret, Len(nbpcall.given) + 1, Len(nbpcall.ret))

AddedWith(code) == {i \in DOMAIN Added6 : Added6[i].code = code}

Requested6(code) == \E i \in DOMAIN nbpcall.requested : nbpcall.requested[i] = code

\* the value of the "params" key of the configured template's query string
Params6 == QueryGet(configured6.url.RawQuery, sParams)

\* the reply is the given one followed by what was added, and only boot
\* file options are added
Appended6 ==
    /\ ~nbpcall.retNil
    /\ SubSeq(nbpcall.ret, 1, Len(nbpcall.given)) = nbpcall.given
    /\ \A i \in DOMAIN Added6 :
          Added6[i].code \in {"OptionBootfileURL", "OptionBootfileParam"}

\* the boot file URL option is added iff requested, with the template's URL
URLOptionAsConfigured ==
    /\ AddedWith("OptionBootfileURL") # {} <=> Requested6("OptionBootfileURL")
    /\ \A i \in AddedWith("OptionBootfileURL") :
          Added6[i].v = URLString(configured6.url)

\* C11: after a successful setup6 with template u, whatever setup calls came
\* before, the boot file URL option is added to the reply iff the client
\* requested it, with u's URL string as its value, and the boot file
\* parameter option is added iff the client requested it and u's query has a
\* non-empty "params" value, which is then its value.
C11_Options6 ==
    Handled6 =>
        /\ Appended6
        /\ URLOptionAsConfigured
        /\ AddedWith("OptionBootfileParam") # {} <=>
              (Requested6("OptionBootfileParam") /\ Len(Params6) > 0)
        /\ \A i \in AddedWith("OptionBootfileParam") : Added6[i].v = Params6

\* what the code does: the parameter option carries the "params" value of
\* the latest successful setup6 whose template had one, which is the
\* configured template's whenever that has one
C11_ParamOfLatestSetupWithParams ==
    Handled6 =>
        /\ Appended6
        /\ URLOptionAsConfigured
        /\ AddedWith("OptionBootfileParam") # {} <=>
              (Requested6("OptionBootfileParam") /\ ~nbpcall.pre60.isNil)
        /\ \A i \in AddedWith("OptionBootfileParam") : Added6[i].v = nbpcall.pre60.v
        /\ Len(Params6) > 0 => nbpcall.pre60 = Opt(Params6)

\* the parameter of an earlier template is sent for a template without one
C11_StaleParam ==
    /\ Handled6
    /\ Len(Params6) = 0
    /\ AddedWith("OptionBootfileParam") # {}

\* both options are added from the configured template's own values
C11_BothAdded ==
    /\ Handled6
    /\ Len(Params6) > 0
    /\ AddedWith("OptionBootfileURL") # {}
    /\ \E i \in AddedWith("OptionBootfileParam") : Added6[i].v = Params6
    /\ Len(nbpcall.given) > 0
====
